---- MODULE Spec2Model ----
(***************************************************************************)
(* A model of python/ray/_private/resource_spec.py: the ResourceSpec       *)
(* declaration, ResourceSpec.resolve with the accelerator detectors it     *)
(* calls, and ResourceSpec.to_resource_dict.                               *)
(*                                                                         *)
(* Numbers.  A Python number is stored as 20 times its value (fixed point  *)
(* with 1/20 steps), so that x * 0.95 and 0.05 * x are exact and a caller  *)
(* can supply a non-whole quantity.  Whole(n) is the stored form of the    *)
(* integer n.  Byte quantities are counted in MB (10^6 bytes), the         *)
(* constants of ray_constants included, so that they fit TLC's integers;   *)
(* int() therefore truncates to a whole MB of the model.  The arithmetic   *)
(* is exact: the rounding of Python's binary floats is not modelled.       *)
(*                                                                         *)
(* Optional values.  None is the empty tuple and a value v that is present *)
(* is the one-element tuple <<v>> (Some(v)); Val(x) is the value of a      *)
(* present x.                                                              *)
(*                                                                         *)
(* Dictionaries are functions whose domain is a finite set of strings;     *)
(* strings that the code parses are sequences of one-character strings.    *)
(***************************************************************************)
EXTENDS Integers, Sequences, FiniteSets, TLC

VARIABLES
    self,             \* the declaration the caller constructed
    is_head,          \* resolve's argument
    node_ip_address,  \* resolve's argument (optional)
    env,              \* what the machine and the environment report
    pc,               \* "constructed", "resolved", "mapped"
    ret,              \* how the call of resolve ended
    mapped            \* how the call of to_resource_dict ended

vars == <<self, is_head, node_ip_address, env, pc, ret, mapped>>

----------------------------------------------------------------------------
(* Bounds of the model                                                     *)

\* the largest number of accelerator devices, of visible device ids and of
\* devices the caller asks for (one more than this can also be asked for)
MaxDevices == 2
\* the largest number of entries of the caller's custom resources
MaxCustom == 1
\* the largest CPU count the machine reports
MaxCpus == 2

----------------------------------------------------------------------------
(* Values                                                                  *)

None == << >>
Some(v) == <<v>>
Val(x) == x[1]

Whole(n) == 20 * n
Half == Whole(1) \div 2
is_integer(q) == q % 20 = 0
\* int(x): truncation towards zero
int(q) == IF q >= 0 THEN 20 * (q \div 20) ELSE -(20 * ((-q) \div 20))
min(a, b) == IF a <= b THEN a ELSE b
max(a, b) == IF a >= b THEN a ELSE b

EmptyDict == [k \in {} |-> 0]
\* a changed Put: a key that is present keeps its value (setdefault)
Put_keeps_existing(d, k, v) ==
    [x \in DOMAIN d \cup {k} |-> IF x \in DOMAIN d THEN d[x] ELSE v]

\* d[k] = v
Put(d, k, v) == [x \in DOMAIN d \cup {k} |-> IF x = k THEN v ELSE d[x]]
\* d.update(e), dict(d, **e)
Update(d, e) == [x \in DOMAIN d \cup DOMAIN e |-> IF x \in DOMAIN e THEN e[x] ELSE d[x]]

RECURSIVE Join(_)
\* the string whose characters are the sequence s
Join(s) == IF s = << >> THEN "" ELSE Head(s) \o Join(Tail(s))

----------------------------------------------------------------------------
(* Constants of the program                                                *)

NODE_ID_PREFIX == "node:"
HEAD_NODE_RESOURCE_NAME == NODE_ID_PREFIX \o "__internal_head__"

\* ray_constants is not among the sources: its values are the configured
\* ones, byte quantities in MB.
RESOURCE_CONSTRAINT_PREFIX == "accelerator_type:"
\* 100e12
MAX_RESOURCE_QUANTITY == 100000000
\* 0.3, as a number of tenths
DEFAULT_OBJECT_STORE_MEMORY_PROPORTION == 3
\* 200 * 10**9 bytes
DEFAULT_OBJECT_STORE_MAX_MEMORY_BYTES == 200000
\* 2 * 2**30 bytes, to the MB below
MAC_DEGRADED_PERF_MMAP_SIZE_LIMIT == 2147
\* 10**10 bytes
REQUIRE_SHM_SIZE_THRESHOLD == 10000
\* 10**10 bytes
DEFAULT_REDIS_MAX_MEMORY_BYTES == 10000
\* 10**7 bytes
REDIS_MINIMUM_MEMORY_BYTES == 10
\* 100e6 bytes, the absolute floor of the task memory
MEMORY_FLOOR == 100

ReservedNames == {"CPU", "GPU", "memory", "object_store_memory"}

----------------------------------------------------------------------------
(* Exceptions                                                              *)

AssertionError == "AssertionError"
ReservedResourceNameError == "ValueError: is a reserved resource name"
MismatchedVisibleDeviceCountError == "ValueError: VISIBLE_DEVICES contains"
RedisMemoryBelowMinimumError == "ValueError: the minimum allowed is"
InsufficientMemoryError == "ValueError: memory available for tasks and actors"
UnboundLocalError == "UnboundLocalError: num_gpus"
ProbeError == "Exception raised by a probe"
InvalidResourceQuantityError == "ValueError: Resource quantities must"

----------------------------------------------------------------------------
(* ResourceSpec                                                            *)

Fields == {"num_cpus", "num_gpus", "memory", "object_store_memory",
           "resources", "redis_max_memory"}

ResourceSpec(num_cpus, num_gpus, memory, object_store_memory, resources, redis_max_memory) ==
    [num_cpus |-> num_cpus, num_gpus |-> num_gpus, memory |-> memory,
     object_store_memory |-> object_store_memory, resources |-> resources,
     redis_max_memory |-> redis_max_memory]

resolved(spec) == \A f \in Fields : spec[f] # None

\* a changed QuantityRaises: the sign is not checked
QuantityRaises_no_sign_check(resource_quantity) ==
    \/ ~is_integer(resource_quantity)
    \/ resource_quantity > Whole(MAX_RESOURCE_QUANTITY)

\* the check of one quantity of the flat mapping: TRUE when it raises
QuantityRaises(resource_quantity) ==
    \/ ~is_integer(resource_quantity)
    \/ resource_quantity < 0
    \/ resource_quantity > Whole(MAX_RESOURCE_QUANTITY)

\* the mapping before the checks: the four fields merged over the custom
\* resources, the entries that are zero left out
FlatResources(spec) ==
    LET merged == Update(Val(spec.resources),
                         [k \in ReservedNames |->
                            CASE k = "CPU" -> Val(spec.num_cpus)
                              [] k = "GPU" -> Val(spec.num_gpus)
                              [] k = "memory" -> int(Val(spec.memory))
                              [] OTHER -> int(Val(spec.object_store_memory))])
    IN  [k \in {l \in DOMAIN merged : merged[l] # 0} |-> merged[k]]

to_resource_dict(spec) ==
    IF ~resolved(spec)
    THEN [status |-> "raised", error |-> AssertionError, resources |-> EmptyDict]
    ELSE LET resources == FlatResources(spec)
         IN  IF \E resource_label \in DOMAIN resources :
                    QuantityRaises(resources[resource_label])
             THEN [status |-> "raised", error |-> InvalidResourceQuantityError,
                   resources |-> EmptyDict]
             ELSE [status |-> "returned", error |-> "", resources |-> resources]

----------------------------------------------------------------------------
(* Strings that the code parses                                            *)

Upper == {"A", "B", "C", "D", "E", "F", "G", "H", "I", "J", "K", "L", "M",
          "N", "O", "P", "Q", "R", "S", "T", "U", "V", "W", "X", "Y", "Z"}
Lower == {"a", "b", "c", "d", "e", "f", "g", "h", "i", "j", "k", "l", "m",
          "n", "o", "p", "q", "r", "s", "t", "u", "v", "w", "x", "y", "z"}
Digit == {"0", "1", "2", "3", "4", "5", "6", "7", "8", "9"}
\* \w, \s and [A-Z0-9] of GPU_NAME_PATTERN
WordChar == Upper \cup Lower \cup Digit \cup {"_"}
SpaceChar == {" ", "\t", "\n"}
ModelChar == Upper \cup Digit

RECURSIVE RunLength(_, _, _)
\* the number of characters of s from position i on that are in class
RunLength(s, i, class) ==
    IF i <= Len(s) /\ s[i] \in class THEN 1 + RunLength(s, i + 1, class) ELSE 0

RECURSIVE split(_, _)
\* s.split(sep), sep one character
split(s, sep) ==
    IF \E i \in 1..Len(s) : s[i] = sep
    THEN LET i == CHOOSE j \in 1..Len(s) :
                      s[j] = sep /\ \A h \in 1..(j - 1) : s[h] # sep
         IN  <<SubSeq(s, 1, i - 1)>> \o split(SubSeq(s, i + 1, Len(s)), sep)
    ELSE <<s>>

RECURSIVE rstrip(_)
rstrip(s) ==
    IF s # << >> /\ s[Len(s)] \in SpaceChar THEN rstrip(SubSeq(s, 1, Len(s) - 1))
    ELSE s

\* s.strip()
strip(s) ==
    LET n == RunLength(s, 1, SpaceChar) IN rstrip(SubSeq(s, n + 1, Len(s)))

\* x.startswith(prefix)
startswith(x, prefix) ==
    Len(x) >= Len(prefix) /\ SubSeq(x, 1, Len(prefix)) = prefix

\* GPU_NAME_PATTERN.match(name), r"\w+\s+([A-Z0-9]+)": group(1) or None.
\* The three classes follow one another without overlap of \w with \s and of
\* \s with [A-Z0-9], so the greedy runs are the only way to match.
_pretty_gpu_name(name) ==
    IF name = None THEN None
    ELSE LET s == Val(name)
             w == RunLength(s, 1, WordChar)
             b == RunLength(s, w + 1, SpaceChar)
             g == RunLength(s, w + b + 1, ModelChar)
         IN  IF w >= 1 /\ b >= 1 /\ g >= 1
             THEN Some(Join(SubSeq(s, w + b + 1, w + b + g)))
             ELSE None

----------------------------------------------------------------------------
(* What the probes of the machine answer.  env.devices is the number of    *)
(* devices an enumeration finds, env.gpu_name the name they carry,         *)
(* env.information the driver's information file of the first device,      *)
(* env.probe_raises whether an enumeration call raises, env.info_raises    *)
(* whether reading the information file raises.                            *)

\* GPUtil.getGPUs()
GPUtil_getGPUs(e) == [i \in 1..e.devices |-> [name |-> e.gpu_name]]
\* os.listdir("/proc/driver/nvidia/gpus")
listdir_proc_gpus(e) == [i \in 1..e.devices |-> i]
\* subprocess.check_output(["WMIC", ...]).splitlines(): a header, a line for
\* each NVIDIA adapter and a line for another adapter
WMIC_lines(e) ==
    <<  <<"A", "d", "a", "p", "t", "e", "r">>  >>
    \o [i \in 1..e.devices |-> <<"N", "V", "I", "D", "I", "A", " ", " ">>]
    \o <<  <<"I", "n", "t", "e", "l", " ", "N", "V", "I", "D", "I", "A">>  >>
\* dpctl.get_devices(backend=..., device_type=...)
dpctl_get_devices(e) == [i \in 1..e.devices |-> i]

----------------------------------------------------------------------------
(* The accelerator detectors.  A call ends as [status, error, value].      *)

Returned(v) == [status |-> "returned", error |-> "", value |-> v]
Raised(err) == [status |-> "raised", error |-> err, value |-> None]

_autodetect_num_gpus(e) ==
    IF e.gputil
    THEN IF e.probe_raises THEN Raised(ProbeError)
         ELSE Returned(Whole(Len(GPUtil_getGPUs(e))))
    ELSE IF e.platform \in {"linux", "linux2"}
    THEN IF e.proc_dir
         THEN IF e.probe_raises THEN Raised(ProbeError)
              ELSE Returned(Whole(Len(listdir_proc_gpus(e))))
         ELSE Returned(Whole(0))
    ELSE IF e.platform = "win32"
    THEN IF e.probe_raises THEN Raised(ProbeError)
         ELSE LET lines == Tail(WMIC_lines(e))
              IN  Returned(Whole(Cardinality(
                      {i \in 1..Len(lines) :
                          startswith(lines[i], <<"N", "V", "I", "D", "I", "A">>)})))
    ELSE Returned(Whole(0))

\* the constraint resource of a pretty name, or no resource
ConstraintOf(pretty_name) ==
    IF pretty_name # None
    THEN [k \in {RESOURCE_CONSTRAINT_PREFIX \o Val(pretty_name)} |-> Whole(1)]
    ELSE EmptyDict

_get_gpu_types_gputil(e) ==
    IF e.probe_raises THEN Raised(ProbeError)
    ELSE LET gpu_list == GPUtil_getGPUs(e)
         IN  IF Len(gpu_list) > 0
             THEN LET gpu_list_names == [i \in 1..Len(gpu_list) |-> gpu_list[i].name]
                      info_str == gpu_list_names[Len(gpu_list_names)]
                  IN  Returned(ConstraintOf(_pretty_gpu_name(Some(info_str))))
             ELSE Returned(EmptyDict)

_constraints_from_gpu_info(info_str) ==
    IF info_str = None THEN EmptyDict
    ELSE LET lines == split(Val(info_str), "\n")
             \* the lines that split(":") cuts in two and whose key is Model
             hits == {i \in 1..Len(lines) :
                         LET sp == split(lines[i], ":")
                         IN  Len(sp) = 2 /\ strip(sp[1]) = <<"M", "o", "d", "e", "l">>}
             full_model_name ==
                 IF hits = {} THEN None
                 ELSE LET i == CHOOSE j \in hits : \A h \in hits : j <= h
                      IN  Some(strip(split(lines[i], ":")[2]))
         IN  ConstraintOf(_pretty_gpu_name(full_model_name))

_get_gpu_info_string(e) ==
    IF e.platform \in {"linux", "linux2"} /\ e.proc_dir
    THEN IF e.probe_raises THEN Raised(ProbeError)
         ELSE IF Len(listdir_proc_gpus(e)) > 0
         THEN IF e.info_raises THEN Raised(ProbeError)
              ELSE Returned(Some(e.information))
         ELSE Returned(None)
    ELSE Returned(None)

\* lines 290-298: the type constraints, "" (nothing to merge) when the
\* parsing raises
GpuTypes(e) ==
    IF e.gputil
    THEN LET r == _get_gpu_types_gputil(e)
         IN  IF r.status = "raised" THEN EmptyDict ELSE r.value
    ELSE LET r == _get_gpu_info_string(e)
         IN  IF r.status = "raised" THEN EmptyDict
             ELSE _constraints_from_gpu_info(r.value)

\* value: [num_gpus, gpu_types]
_get_cuda_info(num_gpus, e) ==
    LET gpu_ids == e.visible_devices
    IN  IF num_gpus # None /\ gpu_ids # None /\ Val(num_gpus) > Whole(Len(Val(gpu_ids)))
        THEN Raised(MismatchedVisibleDeviceCountError)
        ELSE IF num_gpus = None
        THEN LET detected == _autodetect_num_gpus(e)
             IN  IF detected.status = "raised" THEN Raised(detected.error)
                 ELSE Returned([num_gpus |->
                                   IF gpu_ids # None
                                   THEN min(detected.value, Whole(Len(Val(gpu_ids))))
                                   ELSE detected.value,
                                gpu_types |-> GpuTypes(e)])
        ELSE Returned([num_gpus |-> Val(num_gpus), gpu_types |-> GpuTypes(e)])

_get_xpu_info(num_xpus, e) ==
    LET xpu_ids == e.visible_devices
        xpu_types == [k \in {RESOURCE_CONSTRAINT_PREFIX \o "xpu"} |-> Whole(1)]
    IN  IF num_xpus # None /\ xpu_ids # None /\ Val(num_xpus) > Whole(Len(Val(xpu_ids)))
        THEN Raised(MismatchedVisibleDeviceCountError)
        ELSE IF num_xpus = None
        THEN IF ~e.dpctl
             THEN Returned([num_gpus |->
                               IF xpu_ids # None
                               THEN min(Whole(0), Whole(Len(Val(xpu_ids))))
                               ELSE Whole(0),
                            gpu_types |-> xpu_types])
             ELSE IF e.probe_raises THEN Raised(ProbeError)
             ELSE LET detected == Whole(Len(dpctl_get_devices(e)))
                  IN  Returned([num_gpus |->
                                   IF xpu_ids # None
                                   THEN min(detected, Whole(Len(Val(xpu_ids))))
                                   ELSE detected,
                                gpu_types |-> xpu_types])
        ELSE Returned([num_gpus |-> Val(num_xpus), gpu_types |-> xpu_types])

----------------------------------------------------------------------------
(* ResourceSpec.resolve.  Its local variables are the record L: a local    *)
(* that is not bound yet is None, L.detect is how the call of the          *)
(* accelerator detector ended (None when there was no call), and           *)
(* L.status is "running" until a statement raises.                         *)

Locals0 ==
    [status |-> "running", error |-> "", resources |-> None, num_cpus |-> None,
     num_gpus |-> None, detect |-> None, object_store_memory |-> None,
     redis_max_memory |-> None, memory |-> None]

Raise(L, err) == [L EXCEPT !.status = "raised", !.error = err]

\* int(x * tenths / 10), x >= 0 or not
IntOfTenths(x, tenths) ==
    IF x * tenths >= 0 THEN 20 * ((x * tenths) \div 200)
    ELSE -(20 * ((-(x * tenths)) \div 200))

\* x * 0.95, exact for a whole x
Times095(x) == (19 * x) \div 20

\* a changed ResolveResources: the head node resource name is looked for
\* only when resolving for the head node
ResolveResources_head_only(s, head, address, e) ==
    LET resources == IF s.resources = None THEN EmptyDict ELSE Val(s.resources)
    IN  IF \E k \in ReservedNames : k \in DOMAIN resources
        THEN Raise(Locals0, AssertionError)
        ELSE LET ip == IF address = None THEN e.node_ip ELSE Val(address)
                 with_node == Put(resources, NODE_ID_PREFIX \o ip, Whole(1))
             IN  IF head /\ HEAD_NODE_RESOURCE_NAME \in DOMAIN with_node
                 THEN Raise([Locals0 EXCEPT !.resources = Some(with_node)],
                            ReservedResourceNameError)
                 ELSE [Locals0 EXCEPT !.resources =
                          Some(IF head
                               THEN Put(with_node, HEAD_NODE_RESOURCE_NAME, Whole(1))
                               ELSE with_node)]

\* lines 148-169: the custom resources, the node id resource and the head
\* node resource
ResolveResources(s, head, address, e) ==
    LET resources == IF s.resources = None THEN EmptyDict ELSE Val(s.resources)
    IN  IF \E k \in ReservedNames : k \in DOMAIN resources
        THEN Raise(Locals0, AssertionError)
        ELSE LET ip == IF address = None THEN e.node_ip ELSE Val(address)
                 with_node == Put(resources, NODE_ID_PREFIX \o ip, Whole(1))
             IN  IF HEAD_NODE_RESOURCE_NAME \in DOMAIN with_node
                 THEN Raise([Locals0 EXCEPT !.resources = Some(with_node)],
                            ReservedResourceNameError)
                 ELSE [Locals0 EXCEPT !.resources =
                          Some(IF head
                               THEN Put(with_node, HEAD_NODE_RESOURCE_NAME, Whole(1))
                               ELSE with_node)]

\* lines 172-174
ResolveCpus(L, s, e) ==
    IF L.status = "raised" THEN L
    ELSE [L EXCEPT !.num_cpus = IF s.num_cpus = None THEN Some(e.num_cpus)
                                ELSE s.num_cpus]

\* lines 177-185: num_gpus stays unbound when the accelerator is neither
\* CUDA nor XPU
ResolveAccelerator(L, s, e) ==
    IF L.status = "raised" THEN L
    ELSE IF e.accelerator \in {"CUDA", "XPU"}
    THEN LET r == IF e.accelerator = "CUDA" THEN _get_cuda_info(s.num_gpus, e)
                  ELSE _get_xpu_info(s.num_gpus, e)
         IN  IF r.status = "raised"
             THEN Raise([L EXCEPT !.detect = Some(r)], r.error)
             ELSE [L EXCEPT !.detect = Some(r),
                            !.num_gpus = Some(r.value.num_gpus),
                            !.resources = Some(Update(Val(L.resources),
                                                      r.value.gpu_types))]
    ELSE L

\* a changed MaxCap: the shared memory caps the object store without the
\* threshold below it
MaxCap_no_threshold(e) ==
    IF e.platform \in {"linux", "linux2"}
    THEN min(Times095(e.shared_memory), Whole(DEFAULT_OBJECT_STORE_MAX_MEMORY_BYTES))
    ELSE Whole(DEFAULT_OBJECT_STORE_MAX_MEMORY_BYTES)

\* lines 204-213
MaxCap(e) ==
    IF e.platform \in {"linux", "linux2"}
    THEN min(max(Whole(REQUIRE_SHM_SIZE_THRESHOLD), Times095(e.shared_memory)),
             Whole(DEFAULT_OBJECT_STORE_MAX_MEMORY_BYTES))
    ELSE Whole(DEFAULT_OBJECT_STORE_MAX_MEMORY_BYTES)

\* lines 192-223
DefaultObjectStoreMemory(e) ==
    LET proportional == IntOfTenths(e.avail_memory,
                                    DEFAULT_OBJECT_STORE_MEMORY_PROPORTION)
        object_store_memory ==
            IF e.platform = "darwin"
            THEN min(proportional, Whole(MAC_DEGRADED_PERF_MMAP_SIZE_LIMIT))
            ELSE proportional
    IN  IF object_store_memory > MaxCap(e) THEN MaxCap(e) ELSE object_store_memory

\* a changed ResolveObjectStore: the cap is applied to the size the caller
\* supplies as well
ResolveObjectStore_caps_supplied(L, s, e) ==
    IF L.status = "raised" THEN L
    ELSE [L EXCEPT !.object_store_memory =
             IF s.object_store_memory = None THEN Some(DefaultObjectStoreMemory(e))
             ELSE Some(min(Val(s.object_store_memory), MaxCap(e)))]

\* lines 188-223
ResolveObjectStore(L, s, e) ==
    IF L.status = "raised" THEN L
    ELSE [L EXCEPT !.object_store_memory =
             IF s.object_store_memory = None THEN Some(DefaultObjectStoreMemory(e))
             ELSE s.object_store_memory]

\* lines 227-230
DefaultRedisMaxMemory(e) ==
    min(Whole(DEFAULT_REDIS_MAX_MEMORY_BYTES),
        max(IntOfTenths(e.avail_memory, 1), Whole(REDIS_MINIMUM_MEMORY_BYTES)))

\* a changed ResolveRedis: only the default is compared with the minimum
ResolveRedis_checks_default_only(L, s, e) ==
    IF L.status = "raised" THEN L
    ELSE IF s.redis_max_memory = None
    THEN IF DefaultRedisMaxMemory(e) < Whole(REDIS_MINIMUM_MEMORY_BYTES)
         THEN Raise([L EXCEPT !.redis_max_memory = Some(DefaultRedisMaxMemory(e))],
                    RedisMemoryBelowMinimumError)
         ELSE [L EXCEPT !.redis_max_memory = Some(DefaultRedisMaxMemory(e))]
    ELSE [L EXCEPT !.redis_max_memory = s.redis_max_memory]

\* lines 225-237
ResolveRedis(L, s, e) ==
    IF L.status = "raised" THEN L
    ELSE LET redis_max_memory ==
                 IF s.redis_max_memory = None THEN DefaultRedisMaxMemory(e)
                 ELSE Val(s.redis_max_memory)
             bound == [L EXCEPT !.redis_max_memory = Some(redis_max_memory)]
         IN  IF redis_max_memory < Whole(REDIS_MINIMUM_MEMORY_BYTES)
             THEN Raise(bound, RedisMemoryBelowMinimumError)
             ELSE bound

\* lines 241-245
DefaultMemory(avail_memory, object_store_memory, redis_max_memory, head) ==
    avail_memory - object_store_memory - (IF head THEN redis_max_memory ELSE 0)

\* line 246: memory < 100e6 and memory < 0.05 * system_memory
BelowBothFloors(memory, system_memory) ==
    memory < Whole(MEMORY_FLOOR) /\ 20 * memory < system_memory

\* lines 239-256
ResolveMemory(L, s, head, e) ==
    IF L.status = "raised" THEN L
    ELSE IF s.memory = None
    THEN LET memory == DefaultMemory(e.avail_memory, Val(L.object_store_memory),
                                     Val(L.redis_max_memory), head)
             bound == [L EXCEPT !.memory = Some(memory)]
         IN  IF BelowBothFloors(memory, e.system_memory)
             THEN Raise(bound, InsufficientMemoryError)
             ELSE bound
    ELSE [L EXCEPT !.memory = s.memory]

\* a changed ResolveReturn: num_gpus starts as None and the declaration is
\* returned without the assertion
ResolveReturn_unchecked(L) ==
    IF L.status = "raised"
    THEN [status |-> "raised", error |-> L.error, spec |-> None, locals |-> L]
    ELSE [status |-> "returned", error |-> "",
          spec |-> Some(ResourceSpec(L.num_cpus, L.num_gpus, L.memory,
                                     L.object_store_memory, L.resources,
                                     L.redis_max_memory)),
          locals |-> L]

\* lines 258-262: [status, error, spec, locals]
ResolveReturn(L) ==
    IF L.status = "raised"
    THEN [status |-> "raised", error |-> L.error, spec |-> None, locals |-> L]
    ELSE IF L.num_gpus = None
    THEN [status |-> "raised", error |-> UnboundLocalError, spec |-> None,
          locals |-> L]
    ELSE LET spec == ResourceSpec(L.num_cpus, L.num_gpus, L.memory,
                                  L.object_store_memory, L.resources,
                                  L.redis_max_memory)
         IN  IF resolved(spec)
             THEN [status |-> "returned", error |-> "", spec |-> Some(spec),
                   locals |-> L]
             ELSE [status |-> "raised", error |-> AssertionError, spec |-> None,
                   locals |-> L]

resolve(s, head, address, e) ==
    ResolveReturn(
        ResolveMemory(
            ResolveRedis(
                ResolveObjectStore(
                    ResolveAccelerator(
                        ResolveCpus(ResolveResources(s, head, address, e), s, e),
                        s, e),
                    s, e),
                s, e),
            s, head, e))

----------------------------------------------------------------------------
(* The inputs: the declarations a caller constructs, the arguments of      *)
(* resolve and the answers of the machine.  Each family below varies one   *)
(* group of inputs over all its samples and the other groups over a few.   *)

\* "Tesla V100-SXM2"
Name_Tesla_V100 ==
    <<"T", "e", "s", "l", "a", " ", "V", "1", "0", "0", "-", "S", "X",
    "M", "2">>
\* "Tesla K80"
Name_Tesla_K80 ==
    <<"T", "e", "s", "l", "a", " ", "K", "8", "0">>
\* "GeForce"
Name_GeForce ==
    <<"G", "e", "F", "o", "r", "c", "e">>
\* "NVIDIA geforce"
Name_lower ==
    <<"N", "V", "I", "D", "I", "A", " ", "g", "e", "f", "o", "r", "c",
    "e">>
\* "Model: \t Tesla K80\nIRQ: 41"
Info_K80 ==
    <<"M", "o", "d", "e", "l", ":", " ", "\t", " ", "T", "e", "s", "l",
    "a", " ", "K", "8", "0", "\n", "I", "R", "Q", ":", " ", "4", "1">>
\* "IRQ: 41\nBus Location: 0000:01\nModel: Tesla V100\nModel: Tesla K80"
Info_V100 ==
    <<"I", "R", "Q", ":", " ", "4", "1", "\n", "B", "u", "s", " ", "L",
    "o", "c", "a", "t", "i", "o", "n", ":", " ", "0", "0", "0", "0", ":",
    "0", "1", "\n", "M", "o", "d", "e", "l", ":", " ", "T", "e", "s", "l",
    "a", " ", "V", "1", "0", "0", "\n", "M", "o", "d", "e", "l", ":", " ",
    "T", "e", "s", "l", "a", " ", "K", "8", "0">>
\* "Model: A100"
Info_A100 ==
    <<"M", "o", "d", "e", "l", ":", " ", "A", "1", "0", "0">>
\* "IRQ: 41"
Info_none ==
    <<"I", "R", "Q", ":", " ", "4", "1">>

GpuNames == {Name_Tesla_V100, Name_Tesla_K80, Name_GeForce, Name_lower, << >>}
Informations == {Info_K80, Info_V100, Info_A100, Info_none}

\* a machine on which every probe answers
DefaultEnv ==
    [accelerator |-> "CUDA", platform |-> "linux", gputil |-> FALSE,
     proc_dir |-> TRUE, dpctl |-> TRUE, visible_devices |-> None,
     devices |-> 1, gpu_name |-> Name_Tesla_V100, information |-> Info_K80,
     probe_raises |-> FALSE, info_raises |-> FALSE,
     num_cpus |-> Whole(MaxCpus), system_memory |-> Whole(64000),
     avail_memory |-> Whole(8000), shared_memory |-> Whole(12001),
     node_ip |-> "10.0.0.2"]

Unset == ResourceSpec(None, None, None, None, None, None)

Optional(S) == {None} \cup {Some(v) : v \in S}

\* quantities a caller can write: zero, a non-whole number, a whole number,
\* a negative number and a number above the maximum
QuantitySamples ==
    {0, Half, Whole(1), -Whole(1), Whole(MAX_RESOURCE_QUANTITY) + Whole(1)}

ResourceNameSamples ==
    ReservedNames \cup
    {"custom", HEAD_NODE_RESOURCE_NAME, NODE_ID_PREFIX \o "10.0.0.1",
     NODE_ID_PREFIX \o "10.0.0.2", RESOURCE_CONSTRAINT_PREFIX \o "xpu",
     RESOURCE_CONSTRAINT_PREFIX \o "K80"}

\* the dictionaries of at most MaxCustom entries
DictSamples ==
    UNION {[D -> QuantitySamples] :
              D \in {X \in SUBSET ResourceNameSamples : Cardinality(X) <= MaxCustom}}

AddressSamples == {None, Some("10.0.0.1"), Some("__internal_head__")}

\* identifiers 0 .. n-1 of the visible devices
DeviceIds(n) == [i \in 1..n |-> i - 1]
VisibleSamples == Optional({DeviceIds(n) : n \in 0..MaxDevices})

\* memory sizes in MB
AvailSamples == {50, 55, 1000, 8000, 40000, 700000}
SystemSamples == {50, 1000, 64000, 1000000}
SharedSamples == {0, 64, 12001, 300000}

\* a few accelerator situations: detection succeeds for either family, no
\* known accelerator, more devices requested than visible, a probe raises
AccelFew ==
    {[num_gpus |-> None, env |-> DefaultEnv],
     [num_gpus |-> None, env |-> [DefaultEnv EXCEPT !.accelerator = "XPU"]],
     [num_gpus |-> None, env |-> [DefaultEnv EXCEPT !.accelerator = "OTHER"]],
     [num_gpus |-> Some(Whole(1)),
      env |-> [DefaultEnv EXCEPT !.visible_devices = Some(DeviceIds(0))]],
     [num_gpus |-> None, env |-> [DefaultEnv EXCEPT !.probe_raises = TRUE]]}

\* a few memory situations: nothing requested, a metadata-store cap below
\* the minimum, an object store that leaves no memory to the tasks
MemoryFew ==
    {[memory |-> None, object_store_memory |-> None, redis_max_memory |-> None],
     [memory |-> None, object_store_memory |-> None,
      redis_max_memory |-> Some(Whole(1))],
     [memory |-> None, object_store_memory |-> Some(Whole(7990)),
      redis_max_memory |-> None]}

\* the caller constructs s and is about to call s.resolve(head, address) on
\* the machine e
Input(s, head, address, e) ==
    /\ self = s
    /\ is_head = head
    /\ node_ip_address = address
    /\ env = e

\* the custom resources, is_head and the node address
NamesInputs ==
    \E resources \in Optional(DictSamples), head \in BOOLEAN,
        address \in AddressSamples, a \in AccelFew, m \in MemoryFew :
        Input(ResourceSpec(None, a.num_gpus, m.memory, m.object_store_memory,
                        resources, m.redis_max_memory),
           head, address, a.env)

\* the count of accelerators
AccelInputs ==
    \E num_gpus \in Optional({Whole(n) : n \in 0..(MaxDevices + 1)}),
        f \in [accelerator : {"CUDA", "XPU", "OTHER"},
               platform : {"linux", "darwin", "win32"},
               gputil : BOOLEAN, proc_dir : BOOLEAN, dpctl : BOOLEAN,
               probe_raises : BOOLEAN],
        visible \in VisibleSamples, devices \in 0..MaxDevices, m \in MemoryFew :
        Input(ResourceSpec(None, num_gpus, m.memory, m.object_store_memory, None,
                           m.redis_max_memory),
              FALSE, None,
           [DefaultEnv EXCEPT !.accelerator = f.accelerator,
                              !.platform = f.platform,
                              !.gputil = f.gputil,
                              !.proc_dir = f.proc_dir,
                              !.dpctl = f.dpctl,
                              !.probe_raises = f.probe_raises,
                              !.visible_devices = visible,
                              !.devices = devices])

\* the type of the accelerators
TypeInputs ==
    \E num_gpus \in {None, Some(Whole(1))},
        f \in [platform : {"linux", "win32"}, gputil : BOOLEAN,
               proc_dir : BOOLEAN, probe_raises : BOOLEAN, info_raises : BOOLEAN,
               gpu_name : GpuNames, information : Informations],
        devices \in 0..MaxDevices :
        Input(ResourceSpec(None, num_gpus, None, None, None, None), TRUE, None,
           [DefaultEnv EXCEPT !.platform = f.platform,
                              !.gputil = f.gputil,
                              !.proc_dir = f.proc_dir,
                              !.probe_raises = f.probe_raises,
                              !.info_raises = f.info_raises,
                              !.gpu_name = f.gpu_name,
                              !.information = f.information,
                              !.devices = devices])

\* the memory sizes; the machine has at least the memory that is available
MemoryInputs ==
    \E q \in [memory : Optional({Whole(1), Whole(5000)}),
               object_store_memory :
                   Optional({Whole(49), Whole(910), Whole(300000)}),
               redis_max_memory : Optional({Whole(1), Whole(10), Whole(20000)})],
        head \in BOOLEAN, a \in AccelFew,
        f \in {g \in [platform : {"linux", "darwin", "win32"},
                      avail_memory : AvailSamples,
                      system_memory : SystemSamples,
                      shared_memory : SharedSamples] :
                  g.avail_memory <= g.system_memory} :
        Input(ResourceSpec(None, None, q.memory, q.object_store_memory, None,
                        q.redis_max_memory),
           head, None,
           [a.env EXCEPT !.platform = f.platform,
                         !.avail_memory = Whole(f.avail_memory),
                         !.system_memory = Whole(f.system_memory),
                         !.shared_memory = Whole(f.shared_memory)])

\* the quantities of a declaration, resolved or not, and the CPU count
QuantityInputs ==
    \E q \in [num_cpus : Optional(QuantitySamples),
               num_gpus : Optional({0, Half, Whole(1)}),
               memory : Optional({Half, Whole(5000) + Half, -Whole(1),
                                  Whole(MAX_RESOURCE_QUANTITY) + Whole(1)}),
               object_store_memory : Optional({Half, Whole(49) + Half}),
               resources : Optional({EmptyDict,
                                     [k \in {"custom"} |-> Half],
                                     [k \in {"custom"} |-> Whole(2)],
                                     [k \in {"CPU"} |-> Half]}),
               redis_max_memory : Optional({Whole(10)})],
        n \in 1..MaxCpus :
        Input(ResourceSpec(q.num_cpus, q.num_gpus, q.memory, q.object_store_memory,
                        q.resources, q.redis_max_memory),
           FALSE, Some("10.0.0.1"), [DefaultEnv EXCEPT !.num_cpus = Whole(n)])

Inputs ==
    NamesInputs \/ AccelInputs \/ TypeInputs \/ MemoryInputs \/ QuantityInputs

----------------------------------------------------------------------------
(* The life of a declaration: it is constructed, resolved once, and the    *)
(* resolved declaration is flattened; a caller can also flatten the        *)
(* declaration it constructed.                                             *)

NoCall == [status |-> "none", error |-> "", spec |-> None, locals |-> Locals0]
NoMap == [status |-> "none", error |-> "", resources |-> EmptyDict]

Init ==
    /\ Inputs
    /\ pc = "constructed"
    /\ ret = NoCall
    /\ mapped = NoMap

\* spec.resolve(is_head, node_ip_address)
Resolve ==
    /\ pc = "constructed"
    /\ ret' = resolve(self, is_head, node_ip_address, env)
    /\ pc' = "resolved"
    /\ UNCHANGED <<self, is_head, node_ip_address, env, mapped>>

\* spec.resolve(...).to_resource_dict()
ToResourceDict ==
    /\ pc = "resolved"
    /\ ret.status = "returned"
    /\ mapped' = to_resource_dict(Val(ret.spec))
    /\ pc' = "mapped"
    /\ UNCHANGED <<self, is_head, node_ip_address, env, ret>>

\* spec.to_resource_dict() on the declaration as constructed
ToResourceDictOfSelf ==
    /\ pc = "constructed"
    /\ mapped' = to_resource_dict(self)
    /\ pc' = "mapped"
    /\ UNCHANGED <<self, is_head, node_ip_address, env, ret>>

Next == Resolve \/ ToResourceDict \/ ToResourceDictOfSelf

Spec == Init /\ [][Next]_vars

\* the declaration that was flattened
MappedSpec == IF ret.status = "returned" THEN Val(ret.spec) ELSE self

----------------------------------------------------------------------------
(* Properties                                                              *)

Called == ret.status # "none"
Result == Val(ret.spec)
\* the address the node id resource is made of
NodeAddress == IF node_ip_address = None THEN env.node_ip ELSE Val(node_ip_address)

\* C1: every declaration that resolve returns has its six fields non-null,
\* whatever the declaration it was called on, is_head, the node address and
\* the accelerator the environment reports.
C1_ReturnedIsResolved ==
    ret.status = "returned" =>
        /\ ret.spec # None
        /\ \A f \in Fields : Result[f] # None

\* resolve has returned on a declaration with no field set
C1_Witness ==
    /\ ret.status = "returned"
    /\ self = Unset
    /\ env.accelerator = "XPU"

\* the errors the specification names: a reserved resource name (an
\* assertion for CPU, GPU, memory and object_store_memory, a ValueError for
\* the head node resource), the visible device count, the metadata-store cap
\* and the task memory
NamedErrors ==
    {AssertionError, ReservedResourceNameError, MismatchedVisibleDeviceCountError,
     RedisMemoryBelowMinimumError, InsufficientMemoryError}

\* C2: resolve either returns a fully resolved declaration or fails with one
\* of the four named configuration errors, whichever accelerator the
\* environment reports.
C2_ReturnsOrNamedError ==
    Called =>
        \/ ret.status = "returned" /\ resolved(Result)
        \/ ret.status = "raised" /\ ret.error \in NamedErrors /\ ret.spec = None

\* what is left of C2 on the machines whose accelerator is CUDA or XPU and
\* whose probes do not raise
C2_OnKnownAcceleratorAndQuietProbes ==
    (Called /\ env.accelerator \in {"CUDA", "XPU"} /\ ~env.probe_raises)
        => C2_ReturnsOrNamedError

\* the four fields merged over the custom resources, as to_resource_dict
\* sees them
MergedQuantities(spec) ==
    [k \in DOMAIN Val(spec.resources) \cup ReservedNames |->
        IF k = "CPU" THEN Val(spec.num_cpus)
        ELSE IF k = "GPU" THEN Val(spec.num_gpus)
        ELSE IF k = "memory" THEN int(Val(spec.memory))
        ELSE IF k = "object_store_memory" THEN int(Val(spec.object_store_memory))
        ELSE Val(spec.resources)[k]]

ValidQuantity(q) ==
    q % Whole(1) = 0 /\ q >= 0 /\ q <= Whole(MAX_RESOURCE_QUANTITY)

\* C3: on a resolved declaration to_resource_dict either fails or returns a
\* mapping with no entry that is zero, not whole, negative or above the
\* maximum; an entry that is zero is left out and is no reason to fail.
C3_FlatMappingIsValid ==
    (pc = "mapped" /\ resolved(MappedSpec)) =>
        LET merged == MergedQuantities(MappedSpec)
            nonzero == {k \in DOMAIN merged : merged[k] # 0}
        IN  /\ mapped.status \in {"returned", "raised"}
            /\ mapped.status = "returned" =>
                  \A k \in DOMAIN mapped.resources :
                      mapped.resources[k] # 0 /\ ValidQuantity(mapped.resources[k])
            /\ (\A k \in nonzero : ValidQuantity(merged[k])) =>
                  /\ mapped.status = "returned"
                  /\ DOMAIN mapped.resources = nonzero
                  /\ \A k \in nonzero : mapped.resources[k] = merged[k]

\* a resolved declaration with no accelerator was flattened: GPU is left out
C3_Witness ==
    /\ pc = "mapped"
    /\ ret.status = "returned"
    /\ Result.num_gpus = Some(0)
    /\ mapped.status = "returned"
    /\ "GPU" \notin DOMAIN mapped.resources
    /\ "CPU" \in DOMAIN mapped.resources

\* C4: resolve fails and returns no declaration when the caller's custom
\* resources contain CPU, GPU, memory, object_store_memory or the head node
\* resource name, for either value of is_head.
C4_ReservedNamesFail ==
    (Called /\ self.resources # None
        /\ \E k \in ReservedNames \cup {HEAD_NODE_RESOURCE_NAME} :
              k \in DOMAIN Val(self.resources))
        => /\ ret.status = "raised"
           /\ ret.spec = None
           /\ ret.error \in {AssertionError, ReservedResourceNameError}

\* resolve was called for a node that is not the head on custom resources
\* that hold the head node resource name
C4_Witness ==
    /\ Called
    /\ ~is_head
    /\ self.resources # None
    /\ HEAD_NODE_RESOURCE_NAME \in DOMAIN Val(self.resources)
    /\ ret.error = ReservedResourceNameError

\* C5: in every declaration that resolve returns the custom resources map
\* node:<node address> to 1.0, whatever the caller had put under that name,
\* and hold the head node resource name, mapped to 1.0, exactly when is_head.
C5_NodeAndHeadResources ==
    ret.status = "returned" =>
        LET resources == Val(Result.resources)
            node == NODE_ID_PREFIX \o NodeAddress
        IN  /\ node \in DOMAIN resources
            /\ resources[node] = Whole(1)
            /\ (HEAD_NODE_RESOURCE_NAME \in DOMAIN resources) <=> is_head
            /\ is_head => resources[HEAD_NODE_RESOURCE_NAME] = Whole(1)

\* resolve has returned for the head node on custom resources that held
\* another value under the node's name
C5_Witness ==
    /\ ret.status = "returned"
    /\ is_head
    /\ self.resources # None
    /\ (NODE_ID_PREFIX \o NodeAddress) \in DOMAIN Val(self.resources)
    /\ Val(self.resources)[NODE_ID_PREFIX \o NodeAddress] # Whole(1)

\* resolve has computed the task memory
MemoryComputed == Called /\ self.memory = None /\ ret.locals.memory # None

\* available memory - object store - (metadata-store cap if is_head)
ExpectedMemory ==
    env.avail_memory - Val(ret.locals.object_store_memory)
        - (IF is_head THEN Val(ret.locals.redis_max_memory) ELSE 0)

\* below 100,000,000 bytes and below 5% of the system memory
ExpectedBelowBoth ==
    /\ ExpectedMemory < Whole(100)
    /\ 100 * ExpectedMemory < 5 * env.system_memory

\* the computation and the check of C6, without the return
C6_ComputationAndCheck ==
    MemoryComputed =>
        /\ Val(ret.locals.memory) = ExpectedMemory
        /\ (ret.error = InsufficientMemoryError) <=> ExpectedBelowBoth
        /\ ret.status = "returned" => Result.memory = Some(ExpectedMemory)

\* C6: with the task memory unset, resolve computes it as available memory
\* minus the object store minus the metadata-store cap if is_head, fails with
\* InsufficientMemoryError exactly when the value is below both floors, and
\* accepts and returns a value that is below one floor only.
C6_DefaultMemory ==
    MemoryComputed =>
        /\ C6_ComputationAndCheck
        /\ ~ExpectedBelowBoth =>
              ret.status = "returned" /\ Result.memory = Some(ExpectedMemory)

RedisBelowMinimum ==
    /\ self.redis_max_memory # None
    /\ Val(self.redis_max_memory) < Whole(REDIS_MINIMUM_MEMORY_BYTES)

\* C7 as stated: resolve on a declaration whose metadata-store cap is below
\* the minimum fails with RedisMemoryBelowMinimumError, whatever the other
\* fields, is_head and the node address.
C7_AlwaysRedisError ==
    (Called /\ RedisBelowMinimum) =>
        ret.status = "raised" /\ ret.error = RedisMemoryBelowMinimumError

\* C7 as amended: such a resolve never returns a declaration; it fails with
\* RedisMemoryBelowMinimumError unless the check of the reserved names or the
\* accelerator detector has raised before, and then it fails with that error.
C7_RedisErrorUnlessEarlierError ==
    (Called /\ RedisBelowMinimum) =>
        /\ ret.status = "raised"
        /\ ret.spec = None
        /\ IF ret.locals.num_cpus = None
           THEN ret.error \in {AssertionError, ReservedResourceNameError}
           ELSE IF ret.locals.detect # None
                   /\ Val(ret.locals.detect).status = "raised"
           THEN ret.error = Val(ret.locals.detect).error
           ELSE ret.error = RedisMemoryBelowMinimumError

\* resolve has failed on the cap alone, for the head node and with custom
\* resources
C7_Witness ==
    /\ Called
    /\ RedisBelowMinimum
    /\ is_head
    /\ self.resources # None
    /\ ret.error = RedisMemoryBelowMinimumError

\* the detector of the accelerator family has been called
DetectCalled == Called /\ ret.locals.detect # None
Detect == Val(ret.locals.detect)
AllowListSize == Whole(Len(Val(env.visible_devices)))

\* the number of devices the auto-detection finds on the machine
DetectedCount ==
    IF env.accelerator = "XPU"
    THEN IF env.dpctl THEN Whole(env.devices) ELSE 0
    ELSE IF env.gputil \/ env.platform = "win32"
            \/ (env.platform = "linux" /\ env.proc_dir)
         THEN Whole(env.devices)
         ELSE 0

\* C8: with a visibility allow-list, detect of either family fails with the
\* mismatched-visible-device-count error, exactly when a count is requested
\* that exceeds the size of the list, or returns a count that is at most that
\* size: the requested count unchanged, or min(detected count, size).
C8_DetectWithAllowList ==
    (DetectCalled /\ env.visible_devices # None) =>
        /\ Detect.status = "raised" =>
              Detect.error = MismatchedVisibleDeviceCountError
        /\ (Detect.error = MismatchedVisibleDeviceCountError)
              <=> (self.num_gpus # None /\ Val(self.num_gpus) > AllowListSize)
        /\ Detect.status = "returned" =>
              /\ Detect.value.num_gpus <= AllowListSize
              /\ self.num_gpus # None => Detect.value.num_gpus = Val(self.num_gpus)
              /\ self.num_gpus = None =>
                    Detect.value.num_gpus = min(DetectedCount, AllowListSize)

\* what is left of C8 when no probe raises
C8_WhenProbesAreQuiet ==
    ~env.probe_raises => C8_DetectWithAllowList

\* the machine with the probe that raises answering nothing instead: no
\* device, or an information file without a model
Degraded(e) ==
    IF e.probe_raises THEN [e EXCEPT !.probe_raises = FALSE, !.devices = 0]
    ELSE IF e.info_raises
    THEN [e EXCEPT !.info_raises = FALSE, !.information = << >>]
    ELSE e

\* C9: a probe that raises during resolve never aborts the resolution:
\* resolve ends as it would have ended with no accelerator, or no type
\* constraint, found by that probe.
C9_ProbeFailureDegrades ==
    (Called /\ (env.probe_raises \/ env.info_raises)) =>
        LET degraded == resolve(self, is_head, node_ip_address, Degraded(env))
        IN  /\ ret.status = degraded.status
            /\ ret.error = degraded.error
            /\ ret.spec = degraded.spec

\* what is left of C9 for the probes of the type constraints: the counting
\* probes are not run when the count is requested
C9_TypeProbesDegrade ==
    (self.num_gpus # None \/ ~env.probe_raises) => C9_ProbeFailureDegrades

\* the accelerator detector has raised
DetectRaised == ret.locals.detect # None /\ Val(ret.locals.detect).status = "raised"

\* resolve has computed the size of the object store
ObjectStoreComputed ==
    Called /\ self.object_store_memory = None
           /\ ret.locals.object_store_memory # None

\* min(max(0.95 x shared memory, threshold), absolute max cap) on Linux, the
\* absolute max cap elsewhere
ExpectedCap ==
    IF env.platform = "linux"
    THEN LET shm_avail == (95 * env.shared_memory) \div 100
             floor == IF shm_avail > Whole(REQUIRE_SHM_SIZE_THRESHOLD)
                      THEN shm_avail ELSE Whole(REQUIRE_SHM_SIZE_THRESHOLD)
         IN  IF floor < Whole(DEFAULT_OBJECT_STORE_MAX_MEMORY_BYTES)
             THEN floor ELSE Whole(DEFAULT_OBJECT_STORE_MAX_MEMORY_BYTES)
    ELSE Whole(DEFAULT_OBJECT_STORE_MAX_MEMORY_BYTES)

\* floor(available memory x proportion), limited to the ceiling on the Mac
ExpectedProportional ==
    LET megabytes == env.avail_memory \div Whole(1)
        floored == Whole((megabytes * DEFAULT_OBJECT_STORE_MEMORY_PROPORTION) \div 10)
    IN  IF env.platform = "darwin"
           /\ floored > Whole(MAC_DEGRADED_PERF_MMAP_SIZE_LIMIT)
        THEN Whole(MAC_DEGRADED_PERF_MMAP_SIZE_LIMIT)
        ELSE floored

\* C10: with the object store unset, its resolved size is
\* min(floor(available memory x proportion), cap), the first limited to the
\* degraded-performance ceiling on the Mac only, the cap being
\* min(max(0.95 x shared memory, threshold), absolute max cap) on Linux only
\* and the absolute max cap elsewhere; so it never exceeds the absolute max
\* cap, and a default above the cap is reduced, which raises nothing.
C10_DefaultObjectStore ==
    (Called /\ self.object_store_memory = None) =>
        /\ (ret.locals.num_cpus # None /\ ~DetectRaised) => ObjectStoreComputed
        /\ ObjectStoreComputed =>
              LET size == Val(ret.locals.object_store_memory)
              IN  /\ size = IF ExpectedProportional > ExpectedCap
                            THEN ExpectedCap ELSE ExpectedProportional
                  /\ size <= Whole(DEFAULT_OBJECT_STORE_MAX_MEMORY_BYTES)
                  /\ ret.status = "returned" =>
                        Result.object_store_memory = Some(size)

\* resolve has returned on Linux an object store reduced to 0.95 x shared
\* memory, below the proportion of the available memory
C10_Witness ==
    /\ ret.status = "returned"
    /\ self.object_store_memory = None
    /\ env.platform = "linux"
    /\ Val(Result.object_store_memory) = ExpectedCap
    /\ ExpectedCap < ExpectedProportional
    /\ ExpectedCap > Whole(REQUIRE_SHM_SIZE_THRESHOLD)
    /\ ExpectedCap < Whole(DEFAULT_OBJECT_STORE_MAX_MEMORY_BYTES)

\* C11: each of the object-store memory, the task memory and the
\* metadata-store cap that the caller supplies is unchanged in the
\* declaration resolve returns, whether or not the other two are supplied:
\* a supplied object-store size is not capped, a supplied task memory does
\* not go through the insufficient-memory check, and a supplied
\* metadata-store cap is compared with the minimum only.
C11_SuppliedMemoryFieldsKept ==
    Called =>
        /\ self.object_store_memory # None =>
              /\ ret.locals.object_store_memory \in {None, self.object_store_memory}
              /\ ret.status = "returned" =>
                    Result.object_store_memory = self.object_store_memory
        /\ self.memory # None =>
              /\ ret.error # InsufficientMemoryError
              /\ ret.status = "returned" => Result.memory = self.memory
        /\ self.redis_max_memory # None =>
              /\ ret.status = "returned" =>
                    Result.redis_max_memory = self.redis_max_memory
              /\ (ret.error = RedisMemoryBelowMinimumError) <=>
                    (ret.locals.redis_max_memory # None /\ RedisBelowMinimum)

\* resolve has returned an object store above the absolute max cap, a task
\* memory below both floors and a metadata-store cap above the default one,
\* all three as supplied
C11_Witness ==
    /\ ret.status = "returned"
    /\ self.object_store_memory # None
    /\ Val(Result.object_store_memory) > Whole(DEFAULT_OBJECT_STORE_MAX_MEMORY_BYTES)
    /\ self.memory # None
    /\ BelowBothFloors(Val(Result.memory), env.system_memory)
    /\ self.redis_max_memory # None
    /\ Val(Result.redis_max_memory) > Whole(DEFAULT_REDIS_MAX_MEMORY_BYTES)

====
